---- MODULE Spec2Model ----
(***************************************************************************)
(* DocuSpark (docuspark.py): the ingestion pipeline run_pipeline, its      *)
(* converters and the Markdown assembly, over an explicit file system.     *)
(*                                                                         *)
(* A file or directory name is the sequence of its dot-separated segments: *)
(* "a.txt" is <<"a","txt">>, ".pdf" is <<"","pdf">>, "." is <<"","">>.     *)
(* A path is the sequence of its components.                               *)
(*                                                                         *)
(* TLC evaluates a LET definition anew at each use and an operator         *)
(* argument once, so a value that is used more than once is handed to an   *)
(* operator as an argument.                                                *)
(***************************************************************************)
EXTENDS Integers, Sequences, FiniteSets, TLC

\* ------------------------------------------------------------------ bounds
MaxFiles == 2   \* files in the input tree
MaxItems == 2   \* image slots (page images, relationships, shapes) in the tree
RunIds == {1, 2}  \* the pipeline is run, and then run once more

\* ----------------------------------------------------------- configuration
\* the two roots, as paths relative to the working directory
RAW_DIR == << <<"data">> >>
OUTPUT_DIR == << <<"clean_md">> >>
\* The supported set with .csv let in
SUPPORTED_TYPES_with_csv == {".pdf", ".docx", ".pptx", ".txt", ".html", ".htm", ".rtf", ".csv"}
SUPPORTED_TYPES == {".pdf", ".docx", ".pptx", ".txt", ".html", ".htm", ".rtf"}
GENERIC_TYPES == {".txt", ".html", ".htm", ".rtf"}

\* ------------------------------------------------------------ names, paths
CurDir == <<"", "">>
ParDir == <<"", "", "">>
ImagesName == <<"images">>

Last(s) == s[Len(s)]
Front(s) == SubSeq(s, 1, Len(s) - 1)

\* str.lower() on the extensions of the model's alphabet
Lower(ext) ==
  CASE ext = ".PDF" -> ".pdf"
    [] OTHER -> ext

\* os.path.splitext on a file name: the extension starts at the last dot,
\* unless only dots precede it
SplitExt(name) ==
  IF Len(name) >= 2 /\ (\E i \in 1..(Len(name) - 1) : name[i] # "")
    THEN [root |-> Front(name), ext |-> "." \o Last(name)]
    ELSE [root |-> name, ext |-> ""]

\* os.path.splitext(file)[1].lower()
ExtOf(name) == Lower(SplitExt(name).ext)

\* os.path.splitext(file)[0] + ".md"
MdFilename(name) == Append(SplitExt(name).root, "md")

\* os.path.join of relative paths
Join(a, b) == a \o b

\* os.path.normpath: "." components vanish, ".." takes back a component
NormStep(h, c) ==
  IF c = CurDir THEN h
  ELSE IF c = ParDir /\ h # <<>> /\ Last(h) # ParDir THEN Front(h)
  ELSE Append(h, c)

RECURSIVE NormPath(_)
NormPath(p) == IF p = <<>> THEN <<>> ELSE NormStep(NormPath(Front(p)), Last(p))

MaxOf(S) == CHOOSE i \in S : \A k \in S : k <= i
MinOf(a, b) == IF a < b THEN a ELSE b

\* The length of the longest common prefix of two paths
CommonLen(p, s) == MaxOf({i \in 0..MinOf(Len(p), Len(s)) : \A j \in 1..i : p[j] = s[j]})

\* os.path.relpath of normalised paths: up from start to the common prefix,
\* then down to the path; "." when nothing is left
RelFrom(p, s, i) ==
  IF i = Len(s) /\ i = Len(p) THEN <<CurDir>>
  ELSE [j \in 1..(Len(s) - i) |-> ParDir] \o SubSeq(p, i + 1, Len(p))

RelNorm(p, s) == RelFrom(p, s, CommonLen(p, s))

\* os.path.relpath(path, start) of two paths relative to the working directory
RelPath(path, start) == RelNorm(NormPath(path), NormPath(start))

\* ------------------------------------------------------------- file system
\* fs maps a normalised path to a directory or to a file with its data
DirEntry == [kind |-> "dir", data |-> [t |-> "none"]]
FileEntry(d) == [kind |-> "file", data |-> d]

\* of a normalised path
IsDir(fsx, p) == p \in DOMAIN fsx /\ fsx[p].kind = "dir"
IsFile(fsx, p) == p \in DOMAIN fsx /\ fsx[p].kind = "file"

Prefixes(p) == {SubSeq(p, 1, k) : k \in 1..Len(p)}

\* os.makedirs(path, exist_ok=True), pre the path and its ancestors: it raises
\* when one of them is a regular file, and then it has created nothing
MakeDirs(fsx, pre) ==
  IF \E q \in pre : IsFile(fsx, q)
    THEN [ok |-> FALSE, fs |-> fsx, made |-> {}]
    ELSE [ok |-> TRUE, fs |-> [q \in pre \ DOMAIN fsx |-> DirEntry] @@ fsx,
          made |-> pre \ DOMAIN fsx]

ensure_dir(fsx, path) == MakeDirs(fsx, Prefixes(NormPath(path)))

\* im.save at a normalised path: fails for an image that cannot be encoded and
\* for a path that is a directory; a failed save leaves the file system as it was
SaveAt(fsx, im, p) ==
  IF im.savable /\ ~IsDir(fsx, p)
    THEN [ok |-> TRUE, fs |-> (p :> FileEntry(im)) @@ fsx]
    ELSE [ok |-> FALSE, fs |-> fsx]

\* im.save(img_path)
SaveImage(fsx, im, path) == SaveAt(fsx, im, NormPath(path))

\* The file opened in append mode: what it held stays in front of the text
WriteAt_append(fsx, p, text) ==
  IF IsDir(fsx, p)
    THEN [ok |-> FALSE, fs |-> fsx]
  ELSE IF IsFile(fsx, p) /\ "figures" \in DOMAIN fsx[p].data
    THEN [ok |-> TRUE,
          fs |-> (p :> FileEntry([text |-> fsx[p].data.text \o text.text,
                                  figures |-> fsx[p].data.figures \o text.figures])) @@ fsx]
    ELSE [ok |-> TRUE, fs |-> (p :> FileEntry(text)) @@ fsx]

\* open(p, "w") and f.write(text) at a normalised path: open raises when the
\* path is a directory, else the file holds the text and nothing else
WriteAt(fsx, p, text) ==
  IF IsDir(fsx, p)
    THEN [ok |-> FALSE, fs |-> fsx]
    ELSE [ok |-> TRUE, fs |-> (p :> FileEntry(text)) @@ fsx]

\* with open(md_output_path, "w", encoding="utf-8") as f: f.write(markdown_text)
WriteMarkdown(fsx, path, text) == WriteAt(fsx, NormPath(path), text)

\* -------------------------------------------------------------- input tree
\* A file of the input tree: its directory relative to RAW_DIR and its name
File(dir, name) == [dir |-> dir, name |-> name]
NoFile == File(<<>>, <<>>)

DirAmd == << <<"a", "md">> >>
DirDeep == << <<"sub">>, <<"deep">> >>

\* The files an input tree is made of: data/a.PDF, data/a.txt, data/b.pdf,
\* data/n.csv, data/a.md/s.pptx, data/sub/deep/r.docx
FilePool ==
  { File(<<>>, <<"a", "PDF">>), File(<<>>, <<"a", "txt">>), File(<<>>, <<"b", "pdf">>),
    File(<<>>, <<"n", "csv">>), File(DirAmd, <<"s", "pptx">>),
    File(DirDeep, <<"r", "docx">>) }

\* The names of the pool in the order of Python's string comparison
NameOrder ==
  << <<"a", "PDF">>, <<"a", "md">>, <<"a", "txt">>, <<"b", "pdf">>, <<"deep">>,
     <<"n", "csv">>, <<"r", "docx">>, <<"s", "pptx">>, <<"sub">> >>
NameRank(name) == CHOOSE i \in 1..Len(NameOrder) : NameOrder[i] = name

Least(names) == CHOOSE x \in names : \A y \in names : NameRank(x) <= NameRank(y)

\* sorted(names): the sequence of the set's names in increasing order
RECURSIVE Sorted(_)
SortedFrom(m, names) == <<m>> \o Sorted(names \ {m})
Sorted(names) == IF names = {} THEN <<>> ELSE SortedFrom(Least(names), names)

\* What a document holds. conts: the pages of a PDF, the slides of a PPTX,
\* the one relationship list of a DOCX, each a sequence of slots (a page
\* image, a relationship, a shape); a slot is
\*   "ok"     an image that is extracted and can be saved
\*   "nosave" an image that is extracted but whose save raises
\*   "drop"   no image: its extraction raises, or (DOCX, PPTX) the
\*            relationship or shape is not a picture
\* fail: -1, or the number of containers read before the parser raises
\* (0: the document does not open; for a generic file: pandoc fails)
SlotSt == {"ok", "nosave", "drop"}

Doc(fail, conts) == [fail |-> fail, conts |-> conts]

\* The sequences of at most n slots
SlotSeqs(n) == UNION {[1..m -> SlotSt] : m \in 0..n}

\* The ways to cut a sequence of slots into non-empty containers
RECURSIVE Cuts(_)
Cuts(s) ==
  IF s = <<>> THEN {<<>>}
  ELSE UNION { { <<SubSeq(s, 1, k)>> \o rest : rest \in Cuts(SubSeq(s, k + 1, Len(s))) } :
               k \in 1..Len(s) }

FailPoints(conts) == {-1} \cup (0..(IF Len(conts) = 0 THEN 0 ELSE Len(conts) - 1))

\* The documents a file of the given extension can be, with at most n slots
DocsFor(ext, n) ==
  IF ext \in {".pdf", ".pptx"} THEN
    UNION { UNION { {Doc(k, c) : k \in FailPoints(c)} : c \in Cuts(s) } : s \in SlotSeqs(n) }
  ELSE IF ext = ".docx" THEN
    { Doc(k, <<s>>) : k \in {-1, 0}, s \in SlotSeqs(n) }
  ELSE IF ext \in GENERIC_TYPES THEN {Doc(-1, <<>>), Doc(0, <<>>)}
  ELSE {Doc(-1, <<>>)}

RECURSIVE SumLen(_)
SumLen(conts) == IF conts = <<>> THEN 0 ELSE Len(conts[1]) + SumLen(Tail(conts))

\* The number of slots in the documents of the tree
RECURSIVE ItemsOf(_, _)
ItemsOf(t, files) ==
  IF files = {} THEN 0
  ELSE SumLen(t[CHOOSE x \in files : TRUE].conts)
       + ItemsOf(t, files \ {CHOOSE x \in files : TRUE})
TotalItems(t) == ItemsOf(t, DOMAIN t)

\* The directories of the input tree: every file's directory and its ancestors
TreeDirs(t) == {<<>>} \cup UNION { Prefixes(f.dir) : f \in DOMAIN t }

IsPrefix(a, b) == Len(a) <= Len(b) /\ SubSeq(b, 1, Len(a)) = a

RECURSIVE Perms(_)
Perms(S) ==
  IF S = {} THEN {<<>>} ELSE UNION { { <<x>> \o p : p \in Perms(S \ {x}) } : x \in S }

\* os.walk(RAW_DIR): top-down, a directory before its subdirectories and the
\* whole of a subtree before the next sibling; the code leaves the order of
\* the siblings to os.scandir, which lists them in an arbitrary order
WalkOrders(t) ==
  {w \in Perms(TreeDirs(t)) :
     \A i, j \in DOMAIN w :
       IsPrefix(w[i], w[j]) =>
         /\ i <= j
         /\ \A k \in i..j : IsPrefix(w[i], w[k])}

\* The files of directory d in the order of: for file in sorted(files)
FilesNamed(d, names) == [i \in 1..Len(names) |-> File(d, names[i])]
SortedFiles(t, d) == FilesNamed(d, Sorted({f.name : f \in {g \in DOMAIN t : g.dir = d}}))

\* The files of the tree in the order the two loops reach them
RECURSIVE WalkFiles(_, _)
WalkFiles(t, w) ==
  IF w = <<>> THEN <<>> ELSE SortedFiles(t, w[1]) \o WalkFiles(t, Tail(w))

\* -------------------------------------------------------------- converters
\* Text is a sequence of tokens; a token names the piece of the source
\* document (or the literal) it stands for
Tok(t, f, n) == [t |-> t, f |-> f, n |-> n]
LogEntry(what, f, name) == [what |-> what, f |-> f, name |-> name]

\* sep.join(parts): the parts with the separator between neighbours
RECURSIVE JoinText(_, _)
JoinText(sep, parts) ==
  IF parts = <<>> THEN <<>>
  ELSE IF Len(parts) = 1 THEN parts[1]
  ELSE parts[1] \o <<sep>> \o JoinText(sep, Tail(parts))

Newlines(n) == Tok("newlines", NoFile, n)

\* The decoded image of slot s of file f
Bitmap(f, s) == [src |-> f, c |-> s.c, i |-> s.i, savable |-> (s.st = "ok")]
RawImage(name, im) == [name |-> name, im |-> im]
ExtractionResult(absent, text, images, lg) ==
  [absent |-> absent, text |-> text, images |-> images, log |-> lg]

\* The containers the parser reads before it raises, all of them if it does not
ReadConts(doc) == IF doc.fail = -1 THEN Len(doc.conts) ELSE doc.fail

\* The slots of containers c..n in document order
RECURSIVE SlotsOf(_, _, _)
SlotsOf(conts, c, n) ==
  IF c > n THEN <<>>
  ELSE [i \in 1..Len(conts[c]) |-> [c |-> c, i |-> i, st |-> conts[c][i]]]
       \o SlotsOf(conts, c + 1, n)

IsImageSlot(s) == s.st # "drop"
ImageSlots(doc) == SelectSeq(SlotsOf(doc.conts, 1, ReadConts(doc)), IsImageSlot)

\* f"img_{page_idx}_{img_idx}.png", f"img_{idx}.png", f"img_slide{slide_idx}.png"
PdfImgName(s) == <<"img_" \o ToString(s.c) \o "_" \o ToString(s.i), "png">>
DocxImgName(s) == <<"img_" \o ToString(s.i), "png">>
PptxImgName(s) == <<"img_slide" \o ToString(s.c), "png">>

FailLog(what, f, doc) == IF doc.fail = -1 THEN <<>> ELSE <<LogEntry(what, f, <<>>)>>

PdfImages(f, sl) == [j \in 1..Len(sl) |-> RawImage(PdfImgName(sl[j]), Bitmap(f, sl[j]))]
DocxImages(f, sl) == [j \in 1..Len(sl) |-> RawImage(DocxImgName(sl[j]), Bitmap(f, sl[j]))]
PptxImages(f, sl) == [j \in 1..Len(sl) |-> RawImage(PptxImgName(sl[j]), Bitmap(f, sl[j]))]

\* The pages read before an error keep their text and images; the error is
\* printed and what was read is returned
convert_pdf(f, doc) ==
  ExtractionResult(FALSE,
    JoinText(Newlines(2), [c \in 1..ReadConts(doc) |-> <<Tok("page", f, c)>>]),
    PdfImages(f, ImageSlots(doc)),
    FailLog("[PDF] Failed", f, doc))

\* Document(path) raises before any paragraph or relationship is read
convert_docx(f, doc) ==
  ExtractionResult(FALSE,
    JoinText(Newlines(1), IF doc.fail = -1 THEN << <<Tok("paragraph", f, 1)>> >> ELSE <<>>),
    DocxImages(f, ImageSlots(doc)),
    FailLog("[DOCX] Failed", f, doc))

convert_pptx(f, doc) ==
  ExtractionResult(FALSE,
    JoinText(Newlines(2), [c \in 1..ReadConts(doc) |-> <<Tok("# Slide", f, c)>>]),
    PptxImages(f, ImageSlots(doc)),
    FailLog("[PPTX] Failed", f, doc))

\* pandoc's failure answered with empty text, as the other converters do
convert_generic_empty(f, doc) ==
  IF doc.fail = -1
    THEN ExtractionResult(FALSE, <<Tok("pandoc", f, 1)>>, <<>>, <<>>)
    ELSE ExtractionResult(FALSE, <<>>, <<>>, <<LogEntry("[Pandoc] Failed", f, <<>>)>>)

\* pypandoc.convert_file: the text, or None when it raises
convert_generic(f, doc) ==
  IF doc.fail = -1
    THEN ExtractionResult(FALSE, <<Tok("pandoc", f, 1)>>, <<>>, <<>>)
    ELSE ExtractionResult(TRUE, <<>>, <<>>, <<LogEntry("[Pandoc] Failed", f, <<>>)>>)

Dispatch(ext, f, doc) ==
  IF ext = ".pdf" THEN convert_pdf(f, doc)
  ELSE IF ext = ".docx" THEN convert_docx(f, doc)
  ELSE IF ext = ".pptx" THEN convert_pptx(f, doc)
  ELSE IF ext \in GENERIC_TYPES THEN convert_generic(f, doc)
  ELSE ExtractionResult(TRUE, <<>>, <<>>, <<>>)

convert_file(f, doc) == Dispatch(ExtOf(f.name), f, doc)

\* ------------------------------------------------------- Markdown assembly
\* pytesseract.image_to_string: the OCR reads text in the images of the odd
\* slots and nothing in the images of the even slots
OcrText(im) == IF im.i % 2 = 1 THEN <<Tok("ocr", im.src, 10 * im.c + im.i)>> ELSE <<>>

\* What describe_image returns for a decoded image
Description(im) ==
  IF OcrText(im) = <<>> THEN [d |-> "No readable text detected", text |-> <<>>]
  ELSE [d |-> "text", text |-> OcrText(im)]

DescribeAt(fsx, p) ==
  IF IsFile(fsx, p) /\ "savable" \in DOMAIN fsx[p].data
    THEN Description(fsx[p].data)
    ELSE [d |-> "Failed to describe image", text |-> <<>>]

\* describe_image(image_path): the description of the image the file at the
\* path holds; the failure text when no image can be opened there
describe_image(fsx, image_path) == DescribeAt(fsx, NormPath(image_path))

Markdown(text, figures) == [text |-> text, figures |-> figures]

\* The figures counted from 0: enumerate without start=1
add_images_to_markdown_from0(fsx, md, image_paths) ==
  IF image_paths = <<>> THEN Markdown(md, <<>>)
  ELSE Markdown(md,
         [idx \in 1..Len(image_paths) |->
            [figure |-> idx - 1,
             link |-> RelPath(image_paths[idx], OUTPUT_DIR),
             description |-> describe_image(fsx, image_paths[idx])]])

\* The link is the image's path as saved, not made relative to OUTPUT_DIR
add_images_to_markdown_unrelative(fsx, md, image_paths) ==
  IF image_paths = <<>> THEN Markdown(md, <<>>)
  ELSE Markdown(md,
         [idx \in 1..Len(image_paths) |->
            [figure |-> idx,
             link |-> image_paths[idx],
             description |-> describe_image(fsx, image_paths[idx])]])

\* add_images_to_markdown(md, image_paths): md itself when there is no image,
\* else md, the heading, and per image the embed line and the description
add_images_to_markdown(fsx, md, image_paths) ==
  IF image_paths = <<>> THEN Markdown(md, <<>>)
  ELSE Markdown(md,
         [idx \in 1..Len(image_paths) |->
            [figure |-> idx,
             link |-> RelPath(image_paths[idx], OUTPUT_DIR),
             description |-> describe_image(fsx, image_paths[idx])]])

\* ---------------------------------------------------------------- pipeline
VARIABLES
  rawExists,  \* os.path.exists(RAW_DIR)
  tree,       \* the input tree: the document each of its files holds
  walk,       \* the order in which os.walk lists the tree's directories
  fs,         \* the file system under the working directory, RAW_DIR apart
  log,        \* what the current run has printed
  run,        \* 1 during the first run of the pipeline, 2 during the second
  pc,         \* where the run is
  todo,       \* the files the two loops have yet to reach
  cur,        \* the locals of the last pass through the loop body
  status,     \* per file of the tree, its state in the current run
  producer,   \* per path made or written in the current run, the file it was for
  snapshot    \* the file system as the previous run left it

vars == <<rawExists, tree, walk, fs, log, run, pc, todo, cur, status, producer, snapshot>>

NoResult == ExtractionResult(TRUE, <<>>, <<>>, <<>>)
Locals(f, res, output_dir, md_output_path, img_paths, saved) ==
  [file |-> f, res |-> res, output_dir |-> output_dir,
   md_output_path |-> md_output_path, img_paths |-> img_paths, saved |-> saved]
NoCur == Locals(NoFile, NoResult, <<>>, <<>>, <<>>, <<>>)

\* im.save(img_path) in its try: the path is appended when the save succeeds,
\* the failure is printed when it raises
AfterSave(acc, file, image, j, mk, img_path, sv) ==
  IF sv.ok
    THEN [acc EXCEPT !.fs = sv.fs, !.made = @ \cup mk.made,
                     !.img_paths = Append(@, img_path), !.saved = Append(@, j)]
    ELSE [acc EXCEPT !.fs = sv.fs, !.made = @ \cup mk.made,
                     !.log = Append(@, LogEntry("Failed to save image", file, image.name))]

\* ensure_dir(img_folder), whose error is not caught, and then the save
AfterMkImages(acc, file, image, j, mk, img_path) ==
  IF ~mk.ok THEN [acc EXCEPT !.ok = FALSE]
  ELSE AfterSave(acc, file, image, j, mk, img_path, SaveImage(mk.fs, image.im, img_path))

SaveOne(acc, file, image, j, img_folder) ==
  AfterMkImages(acc, file, image, j, ensure_dir(acc.fs, img_folder),
                Join(img_folder, <<image.name>>))

\* for im, img_name in images: from image j on; acc is what the loop has done
\* so far. saved: the positions in images of the images whose save succeeded.
\* When os.makedirs raises, ok becomes FALSE and the loop ends.
RECURSIVE SaveImages(_, _, _, _, _)
SaveImages(acc, file, images, output_dir, j) ==
  IF j > Len(images) \/ ~acc.ok THEN acc
  ELSE SaveImages(SaveOne(acc, file, images[j], j, Join(output_dir, <<ImagesName>>)),
                  file, images, output_dir, j + 1)

SaveStart(fsx) ==
  [ok |-> TRUE, fs |-> fsx, img_paths |-> <<>>, saved |-> <<>>, log |-> <<>>, made |-> {}]

Outcome(st, fsx, lg, locals, touched) ==
  [status |-> st, fs |-> fsx, log |-> lg, cur |-> locals, touched |-> touched]

NormAll(paths) == {NormPath(paths[k]) : k \in DOMAIN paths}

\* open(md_output_path, "w") and the write, whose error is not caught
AfterWrite(file, mk, res, lg, sv, locals, touched, wr) ==
  IF ~wr.ok THEN Outcome("Crashed", sv.fs, lg, locals, touched)
  ELSE Outcome("Written", wr.fs, lg, locals,
               touched \cup {NormPath(locals.md_output_path)})

\* From the end of the save loop
AfterImages(file, output_dir, md_output_path, mk, res, lg, sv) ==
  IF ~sv.ok
    THEN Outcome("Crashed", sv.fs, lg \o sv.log,
                 Locals(file, res, output_dir, md_output_path, sv.img_paths, sv.saved),
                 mk.made \cup sv.made \cup NormAll(sv.img_paths))
    ELSE AfterWrite(file, mk, res, lg \o sv.log, sv,
           Locals(file, res, output_dir, md_output_path, sv.img_paths, sv.saved),
           mk.made \cup sv.made \cup NormAll(sv.img_paths),
           WriteMarkdown(sv.fs, md_output_path,
                         add_images_to_markdown(sv.fs, res.text, sv.img_paths)))

\* From the return of convert_file
AfterConvert(file, output_dir, md_output_path, mk, res, lg) ==
  IF res.absent
    THEN Outcome("Skipped", mk.fs, Append(lg, LogEntry("Skipped", file, <<>>)),
                 Locals(file, res, output_dir, md_output_path, <<>>, <<>>), mk.made)
    ELSE AfterImages(file, output_dir, md_output_path, mk, res, lg,
                     SaveImages(SaveStart(mk.fs), file, res.images, output_dir, 1))

\* From ensure_dir(output_dir), whose error is not caught
AfterMkOutput(fsx, file, doc, output_dir, mk) ==
  IF ~mk.ok
    THEN Outcome("Crashed", fsx, <<>>,
                 Locals(file, NoResult, output_dir, <<>>, <<>>, <<>>), {})
    ELSE AfterConvert(file, output_dir, Join(output_dir, <<MdFilename(file.name)>>), mk,
                      convert_file(file, doc), <<LogEntry("Processing", file, <<>>)>>)

InOutputDir(fsx, file, doc, output_dir) ==
  AfterMkOutput(fsx, file, doc, output_dir, ensure_dir(fsx, output_dir))

\* The loop body of run_pipeline for a file that passed the filter, with doc
\* what the file holds: the status the file ends in ("Crashed" when an error
\* of os.makedirs or open leaves the loop), the file system, the prints, the
\* locals, and the paths made or written
LoopBody(fsx, file, doc) ==
  InOutputDir(fsx, file, doc,
              Join(OUTPUT_DIR, RelPath(Join(RAW_DIR, file.dir), RAW_DIR)))

\* Before the first run: RAW_DIR exists or not, the input tree is yet to be
\* filled, and nothing exists under the working directory, OUTPUT_DIR included
Init ==
  /\ rawExists \in BOOLEAN
  /\ tree = <<>>
  /\ walk = <<>>
  /\ fs = <<>>
  /\ log = <<>>
  /\ run = 1
  /\ pc = "start"
  /\ todo = <<>>
  /\ cur = NoCur
  /\ status = <<>>
  /\ producer = <<>>
  /\ snapshot = <<>>

\* Before the first run: a file of the pool is put under RAW_DIR
AddFile ==
  /\ pc = "start" /\ run = 1 /\ rawExists
  /\ Cardinality(DOMAIN tree) < MaxFiles
  /\ \E f \in FilePool \ DOMAIN tree :
       \E doc \in DocsFor(ExtOf(f.name), MaxItems - TotalItems(tree)) :
         tree' = (f :> doc) @@ tree
  /\ UNCHANGED <<rawExists, walk, fs, log, run, pc, todo, cur, status, producer, snapshot>>

\* The output root made before the input root is looked for
AbortOnMissingRoot_after_mkdir ==
  /\ pc = "start" /\ ~rawExists
  /\ fs' = ensure_dir(fs, OUTPUT_DIR).fs
  /\ log' = <<LogEntry("Starting", NoFile, <<>>), LogEntry("does not exist", NoFile, <<>>)>>
  /\ pc' = "aborted"
  /\ UNCHANGED <<rawExists, tree, walk, run, todo, cur, status, producer, snapshot>>

\* run_pipeline, RAW_DIR missing: the banner, the diagnostic, return
AbortOnMissingRoot ==
  /\ pc = "start" /\ ~rawExists
  /\ log' = <<LogEntry("Starting", NoFile, <<>>), LogEntry("does not exist", NoFile, <<>>)>>
  /\ pc' = "aborted"
  /\ UNCHANGED <<rawExists, tree, walk, fs, run, todo, cur, status, producer, snapshot>>

\* run_pipeline, RAW_DIR present: the banner, and os.walk starts
BeginWalk ==
  /\ pc = "start" /\ rawExists
  /\ \E w \in (IF run = 1 THEN WalkOrders(tree) ELSE {walk}) :
       /\ walk' = w
       /\ todo' = WalkFiles(tree, w)
  /\ log' = <<LogEntry("Starting", NoFile, <<>>)>>
  /\ pc' = "walking"
  /\ status' = [f \in DOMAIN tree |-> "Discovered"]
  /\ producer' = <<>>
  /\ cur' = NoCur
  /\ UNCHANGED <<rawExists, tree, fs, run, snapshot>>

\* The loop body for a file whose extension is not supported: continue
IgnoreFile ==
  /\ pc = "walking" /\ todo # <<>>
  /\ ExtOf(todo[1].name) \notin SUPPORTED_TYPES
  /\ todo' = Tail(todo)
  /\ status' = [status EXCEPT ![todo[1]] = "Ignored"]
  /\ UNCHANGED <<rawExists, tree, walk, fs, log, run, pc, cur, producer, snapshot>>

\* What the loop body leaves behind
Commit(file, out) ==
  /\ fs' = out.fs
  /\ log' = log \o out.log
  /\ cur' = out.cur
  /\ producer' = [q \in out.touched |-> file] @@ producer
  /\ IF out.status = "Crashed"
       THEN pc' = "crashed" /\ status' = status
       ELSE pc' = pc /\ status' = [status EXCEPT ![file] = out.status]

\* The loop body for a file whose extension is supported
ProcessFile ==
  /\ pc = "walking" /\ todo # <<>>
  /\ ExtOf(todo[1].name) \in SUPPORTED_TYPES
  /\ Commit(todo[1], LoopBody(fs, todo[1], tree[todo[1]]))
  /\ todo' = Tail(todo)
  /\ UNCHANGED <<rawExists, tree, walk, run, snapshot>>

\* os.walk is exhausted: the closing print
Finish ==
  /\ pc = "walking" /\ todo = <<>>
  /\ log' = Append(log, LogEntry("Done", NoFile, <<>>))
  /\ pc' = "done"
  /\ UNCHANGED <<rawExists, tree, walk, fs, run, todo, cur, status, producer, snapshot>>

\* The pipeline is started again on the unchanged input tree
Rerun ==
  /\ pc \in {"done", "crashed", "aborted"}
  /\ run + 1 \in RunIds
  /\ run' = run + 1
  /\ snapshot' = fs
  /\ pc' = "start"
  /\ UNCHANGED <<rawExists, tree, walk, fs, log, todo, cur, status, producer>>

Next ==
  \/ AddFile
  \/ AbortOnMissingRoot
  \/ BeginWalk
  \/ IgnoreFile
  \/ ProcessFile
  \/ Finish
  \/ Rerun

Spec == Init /\ [][Next]_vars

\* ------------------------------------------------------------------ claims
Supported(f) == ExtOf(f.name) \in SUPPORTED_TYPES

\* The run has ended: the closing print, or an error that left run_pipeline
Ended == pc \in {"done", "crashed"}

\* The last pass through the loop body wrote the Markdown file of cur.file
JustWritten == cur.file \in DOMAIN status /\ status[cur.file] = "Written"

\* The Markdown file that pass wrote
CurMd == fs[NormPath(cur.md_output_path)].data

\* The RawImages of cur.file whose save succeeded, in the extractor's order
SavedImages == [n \in 1..Len(cur.saved) |-> cur.res.images[cur.saved[n]]]

IsMarkdown(fsx, p) == IsFile(fsx, p) /\ "figures" \in DOMAIN fsx[p].data
IsImage(fsx, p) == IsFile(fsx, p) /\ "savable" \in DOMAIN fsx[p].data

\* C1: when a run whose input root exists has ended, every supported file of
\* the tree is in exactly one terminal state, Skipped if its extraction
\* returned absent text and Written otherwise, and no error has ended the run.
C1_AllTerminal ==
  Ended =>
    /\ pc = "done"
    /\ \A f \in DOMAIN tree :
         Supported(f) =>
           status[f] = (IF convert_file(f, tree[f]).absent THEN "Skipped" ELSE "Written")

\* C2: in a Markdown file just written the figures are numbered 1, 2, ..., k,
\* k the number of the document's images whose save succeeded, and figure n
\* embeds the n-th saved image in the extractor's order.
C2_FigureNumbers ==
  JustWritten =>
    /\ Len(CurMd.figures) = Len(cur.saved)
    /\ \A n \in 1..Len(CurMd.figures) :
         /\ CurMd.figures[n].figure = n
         /\ Last(CurMd.figures[n].link) = SavedImages[n].name
    /\ \A n, m \in 1..Len(cur.saved) : n < m => cur.saved[n] < cur.saved[m]
    /\ \A j \in 1..Len(cur.res.images) :
         cur.res.images[j].im.savable <=> \E n \in 1..Len(cur.saved) : cur.saved[n] = j

\* A document with an image whose save failed before one whose save succeeded
C2_Witness ==
  /\ JustWritten
  /\ Len(cur.res.images) = 2
  /\ ~cur.res.images[1].im.savable
  /\ Len(CurMd.figures) = 1

\* C3: when the input root does not exist the run prints the banner and one
\* diagnostic, dispatches no file and writes nothing: no path exists under
\* the working directory, the output root included.
C3_MissingRoot ==
  ~rawExists =>
    /\ fs = <<>> /\ producer = <<>> /\ status = <<>> /\ cur = NoCur
    /\ pc \in {"start", "aborted"}
    /\ pc = "aborted" =>
         /\ Len(SelectSeq(log, LAMBDA e : e.what # "Starting")) = 1
         /\ log[Len(log)].what = "does not exist"

C3_Witness == ~rawExists /\ pc = "aborted" /\ run = 2

\* C4: a file whose lowercased extension is none of .pdf, .docx, .pptx, .txt,
\* .html, .htm, .rtf is never dispatched, no path is made or written for it,
\* and no print names it.
C4_UnsupportedUntouched ==
  \A f \in DOMAIN tree :
    ExtOf(f.name) \notin {".pdf", ".docx", ".pptx", ".txt", ".html", ".htm", ".rtf"} =>
      /\ cur.file # f
      /\ f \in DOMAIN status => status[f] \in {"Discovered", "Ignored"}
      /\ \A q \in DOMAIN producer : producer[q] # f
      /\ \A k \in DOMAIN log : log[k].f # f

\* A run over a tree with n.csv and a written document has ended
C4_Witness ==
  /\ pc = "done"
  /\ \E f \in DOMAIN tree : ExtOf(f.name) = ".csv" /\ status[f] = "Ignored"
  /\ \E f \in DOMAIN tree : status[f] = "Written"

\* The file of the last pass was dispatched and its document failed to open
\* or parse
FailedDoc == cur.file \in DOMAIN tree /\ cur.res # NoResult /\ tree[cur.file].fail # -1

\* The text of the containers read before the parser raised
TextRead(f, doc) == convert_file(f, Doc(-1, SubSeq(doc.conts, 1, doc.fail))).text

\* C5 as claimed: a document of any supported format that fails to open or
\* parse ends Skipped and no Markdown file is written for it.
C5_AnyFormatSkipped ==
  FailedDoc =>
    /\ status[cur.file] = "Skipped"
    /\ \A q \in DOMAIN producer : producer[q] = cur.file => ~IsMarkdown(fs, q)

\* C5 amended: a generic document whose conversion fails ends Skipped, with
\* no Markdown file written for it, and the run goes on; a PDF, DOCX or PPTX
\* that fails to open or parse returns non-absent text and is not skipped:
\* it ends Written exactly when the run goes on, and its Markdown file then
\* holds the text read before the failure (none if the document did not open).
C5_FailedDocument ==
  FailedDoc =>
    IF ExtOf(cur.file.name) \in GENERIC_TYPES
      THEN /\ cur.res.absent
           /\ status[cur.file] = "Skipped"
           /\ pc # "crashed"
           /\ \A q \in DOMAIN producer : producer[q] = cur.file => ~IsMarkdown(fs, q)
      ELSE /\ ~cur.res.absent
           /\ status[cur.file] # "Skipped"
           /\ pc # "crashed" <=> status[cur.file] = "Written"
           /\ JustWritten =>
                /\ IsMarkdown(fs, NormPath(cur.md_output_path))
                /\ CurMd.text = (IF tree[cur.file].fail = 0 THEN <<>>
                                 ELSE TextRead(cur.file, tree[cur.file]))

\* A PDF that fails after its first page is written with that page, after a
\* generic file that was skipped
C5_Witness ==
  /\ FailedDoc /\ JustWritten
  /\ tree[cur.file].fail = 1
  /\ CurMd.text # <<>>
  /\ \E f \in DOMAIN tree : status[f] = "Skipped"

\* C6: processing a file never overwrites a Markdown file or an image file
\* produced for another file in the same run.
C6_NoOverwrite ==
  [][\A q \in DOMAIN producer \cap DOMAIN producer' :
       IsFile(fs, q) => producer'[q] = producer[q]]_vars

\* The Markdown files of a file system, with their content
MarkdownOf(fsx) == {<<p, fsx[p].data>> : p \in {q \in DOMAIN fsx : IsMarkdown(fsx, q)}}

\* C7: when the second run on the unchanged tree has ended, the Markdown
\* files are those the first run left, each with the same content; the
\* second run writes no Markdown path the first run did not write.
C7_Idempotent ==
  run = 2 =>
    /\ Ended => MarkdownOf(fs) = MarkdownOf(snapshot)
    /\ \A q \in DOMAIN producer : IsMarkdown(fs, q) => IsMarkdown(snapshot, q)

\* The second run has rewritten a Markdown file with figures
C7_Witness ==
  /\ run = 2 /\ pc = "done"
  /\ \E q \in DOMAIN producer : IsMarkdown(fs, q) /\ fs[q].data.figures # <<>>

\* C8: in a Markdown file just written, the description of figure n is the
\* describer's output for the n-th saved RawImage of the document.
C8_DescriptionOfNth ==
  JustWritten =>
    \A n \in 1..Len(CurMd.figures) :
      CurMd.figures[n].description = Description(SavedImages[n].im)

\* The directories of the tree, each before its subdirectories, siblings in
\* name order
NameOrderWalks(t) ==
  {w \in WalkOrders(t) :
     \A i, j \in DOMAIN w :
       (i < j /\ Len(w[i]) = Len(w[j]) /\ Front(w[i]) = Front(w[j]))
         => NameRank(Last(w[i])) < NameRank(Last(w[j]))}

\* C9: the directories are visited in name order and the files of each
\* directory in sorted order, the same in every run.
C9_NameOrder ==
  pc \in {"walking", "done", "crashed"} =>
    /\ walk \in NameOrderWalks(tree)
    /\ \E k \in 0..Len(WalkFiles(tree, walk)) :
         todo = SubSeq(WalkFiles(tree, walk), k + 1, Len(WalkFiles(tree, walk)))

\* outputRoot/relativeDir of the file of the last pass
OutDirOf(f) == OUTPUT_DIR \o f.dir

\* C10: a Markdown file just written is at outputRoot/relativeDir/baseName.md
\* and the output root joined with the link of figure n is the path
\* outputRoot/relativeDir/images/suggestedName, where the n-th saved image is.
C10_LinkTargets ==
  JustWritten =>
    /\ IsMarkdown(fs, OutDirOf(cur.file) \o <<Append(Front(cur.file.name), "md")>>)
    /\ producer[OutDirOf(cur.file) \o <<Append(Front(cur.file.name), "md")>>] = cur.file
    /\ \A n \in 1..Len(CurMd.figures) :
         /\ Join(OUTPUT_DIR, CurMd.figures[n].link)
              = OutDirOf(cur.file) \o <<ImagesName, SavedImages[n].name>>
         /\ IsImage(fs, Join(OUTPUT_DIR, CurMd.figures[n].link))

\* A Markdown file with a figure is written at depth 2, after one at depth 0
C10_Witness ==
  /\ JustWritten /\ CurMd.figures # <<>> /\ Len(cur.file.dir) = 2
  /\ \E f \in DOMAIN tree : f.dir = <<>> /\ status[f] = "Written" /\ tree[f].conts # <<>>

====
